---- MODULE Spec2Model ----
(***************************************************************************)
(* A model of src/src/index.ts: the global script cache, the LoadingChain  *)
(* recording calls (script, func, wait, destroy), run(), the promise chain *)
(* that executes the groups, and the load / error events of the script     *)
(* elements appended to document.body.                                     *)
(*                                                                         *)
(* Scheduling.  JavaScript runs one job at a time.  The reactions of the   *)
(* promise chain are microtasks; the load and error events of script       *)
(* elements are tasks of the event loop, which only run when no microtask  *)
(* is queued.  User code (the recording calls and run()) may run at any    *)
(* point between two jobs.                                                 *)
(*                                                                         *)
(* Exceptions.  A recording call or run() that throws a TypeError changes  *)
(* no state: the exception goes to the caller.  Whether a call throws is   *)
(* given by PushThrows, PushDestroyThrows and RunThrows.                   *)
(*                                                                         *)
(* The cache.  GlobalScriptCache.cache is a plain object: a lookup finds   *)
(* its own properties and those inherited from Object.prototype.           *)
(*                                                                         *)
(* Liveness.  FairSpec adds that queued microtasks run and that the events *)
(* of appended script elements are delivered.                              *)
(***************************************************************************)
EXTENDS Integers, Sequences, FiniteSets

\* ---------------------------------------------------------------- bounds
\* Tasks recorded in all, over every plan.
MaxTasks == 2
\* Groups opened in all, over every plan.
MaxGroups == 2

\* ---------------------------------------------------------------- inputs
\* The LoadingChain objects.  A plan is constructed by its first API call.
Plans == {1, 2}
\* Script urls.  "constructor" is a relative url like any other, and it is
\* the name of a property every object inherits from Object.prototype.
Locators == {"a.js", "constructor"}
\* One-off functions handed to func() and destroy().
Funcs == {"f"}
\* The destroyCallback argument of script(): a function, or left out.
NoCallback == "undefined"
Callbacks == {"cb", NoCallback}

\* -------------------------------------------------------------- constants
\* this.queue = null.  The value is written as a queue no recording call can
\* build, so that it compares with every queue.
Null == <<<<[type |-> "null"]>>>>
\* The value of a missing property of the cache.  Script objects are named
\* by their task ids, which are triples; undefined is the empty tuple.
Undefined == <<>>
\* The property names this.cache = {} inherits from Object.prototype.
ProtoKeys == {"constructor"}
\* The value of an inherited property (a function of Object.prototype): it
\* is truthy and has no element, destroyCallback or cacheKey property.
Inherited == <<0>>

VARIABLES
    cache,      \* GlobalScriptCache.cache: cacheKey -> script object (its task id)
    body,       \* the script elements that are children of document.body
    queue,      \* queue[p]: LoadingChain.queue, a sequence of groups, or Null
    groups,     \* groups[p]: the group arrays the chain built by run() holds
    chained,    \* chained[p]: state of the promise chain built by run()
    cur,        \* cur[p]: the group whose Promise.all the chain is waiting for
    microtask,  \* microtask[p]: a reaction of p's chain is queued as a microtask
    status,     \* status[p][g][i]: state of the promise of _loadScript for a task
    cbCalls,    \* cbCalls[p][g][i]: calls made of the destroyCallback of a task
    traces      \* traces[p]: console.trace calls made by the catch clause of p

vars == <<cache, body, queue, groups, chained, cur, microtask, status, cbCalls,
          traces>>

\* ------------------------------------------------------------ ScriptCache
\* function.toString(): the source text of the function.
FunToString(f) == "function " \o f

CacheKeys == Locators \cup {FunToString(f) : f \in Funcs}

\* this.cache[cacheKey]: the own property of the cache object, or else the
\* property it inherits, or else undefined.  The variable holds the own
\* properties.
Property(c, cacheKey) ==
    IF c[cacheKey] # Undefined THEN c[cacheKey]
    ELSE IF cacheKey \in ProtoKeys THEN Inherited
    ELSE Undefined

\* ScriptCache.contains: !!this.cache[cacheKey]
Contains(c, cacheKey) == Property(c, cacheKey) # Undefined

\* ScriptCache.get
Get(c, cacheKey) == Property(c, cacheKey)

\* A put that keeps the entry the cache already holds.
Put_KeepsFirst(c, cacheKey, scriptObj) ==
    IF c[cacheKey] # Undefined THEN c ELSE [c EXCEPT ![cacheKey] = scriptObj]

\* ScriptCache.put: this.cache[scriptObj.cacheKey] = scriptObj
Put(c, cacheKey, scriptObj) == [c EXCEPT ![cacheKey] = scriptObj]

\* ScriptCache.remove: delete this.cache[cacheKey]
Remove(c, cacheKey) == [c EXCEPT ![cacheKey] = Undefined]

\* ------------------------------------------------------ building the tasks
\* _buildScriptObjCacheKey: a string is its own key, a function its text.
BuildScriptObjCacheKey(script) ==
    IF script \in Locators THEN script ELSE FunToString(script)

BuildScriptObj(script, destroyCallback) ==
    [type |-> "url", cacheKey |-> script, url |-> script,
     destroyCallback |-> destroyCallback]

BuildFuncObj(func) ==
    [type |-> "function", cacheKey |-> FunToString(func), fun |-> func]

BuildDestroyObj(script) ==
    [type |-> "destroy", cacheKey |-> BuildScriptObjCacheKey(script)]

\* ------------------------------------------------------------- helpers
RECURSIVE SumLen(_)
SumLen(q) == IF q = <<>> THEN 0 ELSE Len(Head(q)) + SumLen(Tail(q))

\* Tasks a plan holds, in its queue before run() and in its chain after.
TasksOf(p) == SumLen(IF queue[p] = Null THEN groups[p] ELSE queue[p])

RECURSIVE TasksUpTo(_)
TasksUpTo(p) == IF p \notin Plans THEN 0 ELSE TasksOf(p) + TasksUpTo(p - 1)

TotalTasks == TasksUpTo(Cardinality(Plans))

\* Groups a plan holds.
GroupsOf(p) == Len(IF queue[p] = Null THEN groups[p] ELSE queue[p])

RECURSIVE GroupsUpTo(_)
GroupsUpTo(p) == IF p \notin Plans THEN 0 ELSE GroupsOf(p) + GroupsUpTo(p - 1)

TotalGroups == GroupsUpTo(Cardinality(Plans))

\* The bounds leave room for a task in the last group of q.
RoomFor(q) ==
    /\ TotalTasks < MaxTasks
    /\ Len(q) = 0 => TotalGroups < MaxGroups

\* A plan is constructed by its first API call, the plans in turn.
Constructed(p) == queue[p] # <<>>
MayCall(p) == IF p = 1 THEN TRUE ELSE Constructed(p - 1)

\* queue[queue.length - 1].push(obj)
PushLast(q, obj) == [q EXCEPT ![Len(q)] = Append(@, obj)]

\* _pushGroup: this.queue.push([])
PushGroup(q) == Append(q, <<>>)

\* ------------------------------------------------------- recording calls
\* A TypeError leaves the call before it has changed anything.
Throw == UNCHANGED vars

\* this.queue.length and this.queue.push throw when this.queue is null.
PushThrows(q) == q = Null

Record(p, q) ==
    /\ queue' = [queue EXCEPT ![p] = q]
    /\ UNCHANGED <<cache, body, groups, chained, cur, microtask, status,
                   cbCalls, traces>>

\* _pushScript without the look in the cache.
PushScript_NoCacheCheck(q, script, destroyCallback) ==
    LET q1 == IF Len(q) = 0 THEN PushGroup(q) ELSE q
    IN  PushLast(q1, BuildScriptObj(script, destroyCallback))

\* _pushScript: the task is pushed unless the cache holds its key.
PushScript(q, script, destroyCallback) ==
    LET q1 == IF Len(q) = 0 THEN PushGroup(q) ELSE q
        scriptObj == BuildScriptObj(script, destroyCallback)
    IN  IF ~Contains(cache, scriptObj.cacheKey) THEN PushLast(q1, scriptObj) ELSE q1

\* script(script, destroyCallback)
Script(p, script, destroyCallback) ==
    IF PushThrows(queue[p])
    THEN Throw
    ELSE /\ MayCall(p)
         /\ RoomFor(queue[p])
         /\ Record(p, PushScript(queue[p], script, destroyCallback))

\* _pushFunc: always pushed.
PushFunc(q, func) ==
    LET q1 == IF Len(q) = 0 THEN PushGroup(q) ELSE q
    IN  PushLast(q1, BuildFuncObj(func))

\* func(func)
Func(p, func) ==
    IF PushThrows(queue[p])
    THEN Throw
    ELSE /\ MayCall(p)
         /\ RoomFor(queue[p])
         /\ Record(p, PushFunc(queue[p], func))

\* wait()
Wait(p) ==
    IF PushThrows(queue[p])
    THEN Throw
    ELSE /\ MayCall(p)
         /\ TotalGroups < MaxGroups
         /\ Record(p, PushGroup(queue[p]))

\* _pushDestroy opens no group: this.queue[this.queue.length - 1] is
\* undefined on an empty queue, and .push of undefined throws.
PushDestroyThrows(q) == q = Null \/ Len(q) = 0

\* _pushDestroy: the queue it leaves.
PushDestroy(q, script) ==
    IF PushDestroyThrows(q) THEN q ELSE PushLast(q, BuildDestroyObj(script))

\* destroy(script)
Destroy(p, script) ==
    IF PushDestroyThrows(queue[p])
    THEN Throw
    ELSE /\ TotalTasks < MaxTasks
         /\ Record(p, PushDestroy(queue[p], script))

\* ------------------------------------------------------------------ run()
NewStatus(q) == [g \in 1..Len(q) |-> [i \in 1..Len(q[g]) |-> "new"]]
NewCalls(q) == [g \in 1..Len(q) |-> [i \in 1..Len(q[g]) |-> 0]]

\* run() that does not clear the queue.
QueueAfterRun_Kept(q) == q

\* What run() leaves in this.queue.
QueueAfterRun(q) == Null

\* for (let group of this.queue) throws when this.queue is null.
RunThrows(q) == q = Null

\* run(): chain one reaction per group to a resolved promise, append the
\* catch clause, clear the queue.
Run(p) ==
    IF RunThrows(queue[p])
    THEN Throw
    ELSE    /\ MayCall(p)
            /\ groups' = [groups EXCEPT ![p] = queue[p]]
            /\ status' = [status EXCEPT ![p] = NewStatus(queue[p])]
            /\ cbCalls' = [cbCalls EXCEPT ![p] = NewCalls(queue[p])]
            /\ chained' = [chained EXCEPT ![p] = "pending"]
            /\ cur' = [cur EXCEPT ![p] = 0]
            /\ microtask' = [microtask EXCEPT ![p] = TRUE]
            /\ queue' = [queue EXCEPT ![p] = QueueAfterRun(queue[p])]
            /\ UNCHANGED <<cache, body, traces>>

\* ------------------------------------------------------------ the executor
\* Promise.race-like join: fulfilled as soon as one promise is.
PromiseAll_FirstResolved(promises) ==
    IF \E i \in DOMAIN promises : promises[i] = "rejected" THEN "rejected"
    ELSE IF promises = <<>> \/ \E i \in DOMAIN promises : promises[i] = "resolved"
         THEN "fulfilled"
    ELSE "pending"

\* Join that forgets rejections: fulfilled once every promise is settled.
PromiseAll_IgnoreRejected(promises) ==
    IF \A i \in DOMAIN promises : promises[i] \in {"resolved", "rejected"}
    THEN "fulfilled"
    ELSE "pending"

\* Full join: rejected only once every promise is settled.
PromiseAll_FullJoin(promises) ==
    IF \E i \in DOMAIN promises : promises[i] \notin {"resolved", "rejected"}
    THEN "pending"
    ELSE IF \E i \in DOMAIN promises : promises[i] = "rejected" THEN "rejected"
    ELSE "fulfilled"

\* Promise.all over the promises of a group: rejected as soon as one of
\* them is rejected, fulfilled once all of them are, pending otherwise.
PromiseAll(promises) ==
    IF \E i \in DOMAIN promises : promises[i] = "rejected" THEN "rejected"
    ELSE IF \A i \in DOMAIN promises : promises[i] = "resolved" THEN "fulfilled"
    ELSE "pending"

\* A destroy branch that rejects a key the cache does not hold.
DestroyTask_AbsentRejects(s, cacheKey, throws) ==
    IF ~Contains(s.cache, cacheKey) THEN [s |-> s, promise |-> "rejected"]
    ELSE LET o == Get(s.cache, cacheKey)
         IN  [s |-> [s EXCEPT !.body = @ \ {o}, !.cache = Remove(@, cacheKey)],
              promise |-> "resolved"]

\* A destroy branch that detaches the element and calls the callback, and
\* leaves the removal from the cache and its resolve() to a later job.
DestroyTask_RemovesLater(s, cacheKey, throws) ==
    IF ~Contains(s.cache, cacheKey) THEN [s |-> s, promise |-> "resolved"]
    ELSE
      LET o == Get(s.cache, cacheKey)
      IN  IF o = Inherited THEN [s |-> s, promise |-> "resolved"]
          ELSE IF o \notin s.body THEN [s |-> s, promise |-> "rejected"]
          ELSE [s |-> [s EXCEPT !.body = @ \ {o}], promise |-> "inflight"]

\* The destroy branch of _loadScript, on the state s = [cache, body, calls],
\* for the key of a destroy task; throws says whether a destroyCallback
\* that is called throws.  Gives the state and the promise's state.
DestroyTask(s, cacheKey, throws) ==
    IF ~Contains(s.cache, cacheKey) THEN [s |-> s, promise |-> "resolved"]
    ELSE
      LET o == Get(s.cache, cacheKey)          \* scriptObj2Destroy
          obj == groups[o[1]][o[2]][o[3]]
      IN  \* an inherited property has no element and no destroyCallback,
          \* and delete this.cache[undefined] deletes nothing
          IF o = Inherited THEN [s |-> s, promise |-> "resolved"]
          \* removeChild throws NotFoundError for a node that is no child
          ELSE IF o \notin s.body THEN [s |-> s, promise |-> "rejected"]
          ELSE
            LET s1 == [s EXCEPT !.body = @ \ {o}]
            IN  IF obj.destroyCallback # NoCallback
                THEN LET s2 == [s1 EXCEPT !.calls[o[1]][o[2]][o[3]] = @ + 1]
                     IN  IF throws
                         THEN [s |-> s2, promise |-> "rejected"]
                         ELSE [s |-> [s2 EXCEPT !.cache = Remove(@, obj.cacheKey)],
                               promise |-> "resolved"]
                ELSE [s |-> [s1 EXCEPT !.cache = Remove(@, obj.cacheKey)],
                      promise |-> "resolved"]

\* A url branch that puts the task in the cache when it appends the element.
LoadScript_PutsAtAppend(s, p, g, i, throws) ==
    LET scriptObj == groups[p][g][i]
    IN  CASE scriptObj.type = "url" ->
               [s |-> [s EXCEPT !.body = @ \cup {<<p, g, i>>},
                                !.cache = Put(@, scriptObj.cacheKey, <<p, g, i>>)],
                promise |-> "inflight"]
          [] scriptObj.type = "function" ->
               [s |-> s, promise |-> IF throws THEN "rejected" ELSE "resolved"]
          [] OTHER -> DestroyTask(s, scriptObj.cacheKey, throws)

\* A function branch that puts the task in the cache once it has run.
LoadScript_CachesFunc(s, p, g, i, throws) ==
    LET scriptObj == groups[p][g][i]
    IN  CASE scriptObj.type = "url" ->
               [s |-> [s EXCEPT !.body = @ \cup {<<p, g, i>>}], promise |-> "inflight"]
          [] scriptObj.type = "function" ->
               IF throws THEN [s |-> s, promise |-> "rejected"]
               ELSE [s |-> [s EXCEPT !.cache = Put(@, scriptObj.cacheKey, <<p, g, i>>)],
                     promise |-> "resolved"]
          [] OTHER -> DestroyTask(s, scriptObj.cacheKey, throws)

\* _loadScript for task i of group g of plan p: the executor of its promise.
LoadScript(s, p, g, i, throws) ==
    LET scriptObj == groups[p][g][i]
    IN  CASE scriptObj.type = "url" ->
               \* document.body.appendChild(ele); onload / onerror come later
               [s |-> [s EXCEPT !.body = @ \cup {<<p, g, i>>}], promise |-> "inflight"]
          [] scriptObj.type = "function" ->
               \* an exception of the executor rejects the promise
               [s |-> s, promise |-> IF throws THEN "rejected" ELSE "resolved"]
          [] OTHER -> DestroyTask(s, scriptObj.cacheKey, throws)

\* A loop that an exception of a task leaves: the tasks after it stay new.
RECURSIVE LoadGroup_StopsAtThrow(_, _, _, _, _)
LoadGroup_StopsAtThrow(r, p, g, i, throws) ==
    IF i > Len(groups[p][g]) THEN r
    ELSE LET t == LoadScript(r.s, p, g, i, throws[i])
             promises == Append(r.promises, t.promise)
         IN  IF t.promise = "rejected"
             THEN [s |-> t.s,
                   promises |-> promises \o [j \in 1..(Len(groups[p][g]) - i) |-> "new"]]
             ELSE LoadGroup_StopsAtThrow([s |-> t.s, promises |-> promises],
                                         p, g, i + 1, throws)

\* _loadGroup: _loadScript for every task of the group, in order, in one job.
RECURSIVE LoadGroup(_, _, _, _, _)
LoadGroup(r, p, g, i, throws) ==
    IF i > Len(groups[p][g]) THEN r
    ELSE LET t == LoadScript(r.s, p, g, i, throws[i])
         IN  LoadGroup([s |-> t.s, promises |-> Append(r.promises, t.promise)],
                       p, g, i + 1, throws)

\* A chain for which only a failed load fails the group: the exception of a
\* func or of a destroy task is swallowed.
Reaction_OnlyLoadsFail(p) ==
    IF cur[p] = 0 THEN "fulfilled"
    ELSE PromiseAll([i \in DOMAIN status[p][cur[p]] |->
                       IF /\ status[p][cur[p]][i] = "rejected"
                          /\ groups[p][cur[p]][i].type # "url"
                       THEN "resolved" ELSE status[p][cur[p]][i]])

\* The chain's reaction after group g: what it does with the result of the
\* group's Promise.all (the first reaction follows the resolved start).
Reaction(p) ==
    IF cur[p] = 0 THEN "fulfilled" ELSE PromiseAll(status[p][cur[p]])

\* A microtask of plan p's chain: the catch clause after a rejection, the
\* next group after a fulfilment, the end of the chain after the last.
Step(p) ==
    /\ microtask[p]
    /\ UNCHANGED <<queue, groups>>
    /\ LET r == Reaction(p) IN
       CASE r = "rejected" ->
              \* chainedPromoise.catch(e => { console.trace(e) })
              /\ traces' = [traces EXCEPT ![p] = @ + 1]
              /\ chained' = [chained EXCEPT ![p] = "rejected"]
              /\ microtask' = [microtask EXCEPT ![p] = FALSE]
              /\ UNCHANGED <<cache, body, cur, status, cbCalls>>
         [] r = "fulfilled" /\ cur[p] < Len(groups[p]) ->
              \E throws \in [1..Len(groups[p][cur[p] + 1]) -> BOOLEAN] :
                LET g == cur[p] + 1
                    r0 == [s |-> [cache |-> cache, body |-> body, calls |-> cbCalls],
                           promises |-> <<>>]
                    r1 == LoadGroup(r0, p, g, 1, throws)
                IN  /\ cache' = r1.s.cache
                    /\ body' = r1.s.body
                    /\ cbCalls' = r1.s.calls
                    /\ status' = [status EXCEPT ![p][g] = r1.promises]
                    /\ cur' = [cur EXCEPT ![p] = g]
                    /\ microtask' = [microtask EXCEPT
                                       ![p] = PromiseAll(r1.promises) # "pending"]
                    /\ UNCHANGED <<chained, traces>>
         [] r = "fulfilled" /\ cur[p] = Len(groups[p]) ->
              /\ chained' = [chained EXCEPT ![p] = "fulfilled"]
              /\ microtask' = [microtask EXCEPT ![p] = FALSE]
              /\ UNCHANGED <<cache, body, cur, status, cbCalls, traces>>
         [] OTHER ->
              /\ microtask' = [microtask EXCEPT ![p] = FALSE]
              /\ UNCHANGED <<cache, body, cur, status, cbCalls, traces, chained>>

\* A chain that reacts to every settled promise of the group, also after
\* the group's Promise.all is settled.
Settle_ReactsEveryTime(p, g, i, promise) ==
    LET promises == [status[p][g] EXCEPT ![i] = promise]
    IN  /\ status' = [status EXCEPT ![p][g] = promises]
        /\ microtask' = [microtask EXCEPT
             ![p] = g = cur[p] /\ PromiseAll(promises) # "pending"]

\* A rejection that cancels the loads of the group still in flight.
Settle_CancelsSiblings(p, g, i, promise) ==
    LET promises ==
            IF promise = "rejected"
            THEN [j \in DOMAIN status[p][g] |->
                    IF j = i \/ status[p][g][j] = "inflight"
                    THEN "rejected" ELSE status[p][g][j]]
            ELSE [status[p][g] EXCEPT ![i] = promise]
    IN  /\ status' = [status EXCEPT ![p][g] = promises]
        /\ microtask' = [microtask EXCEPT
             ![p] = /\ g = cur[p]
                    /\ PromiseAll(status[p][g]) = "pending"
                    /\ PromiseAll(promises) # "pending"]

\* A settlement the chain never reacts to.
Settle_NeverReacts(p, g, i, promise) ==
    /\ status' = [status EXCEPT ![p][g][i] = promise]
    /\ UNCHANGED microtask

\* An event of the element of a url task settles the task's promise; the
\* chain reacts when that settles the Promise.all it is waiting for.
Settle(p, g, i, promise) ==
    LET promises == [status[p][g] EXCEPT ![i] = promise]
    IN  /\ status' = [status EXCEPT ![p][g] = promises]
        /\ microtask' = [microtask EXCEPT
             ![p] = /\ g = cur[p]
                    /\ PromiseAll(status[p][g]) = "pending"
                    /\ PromiseAll(promises) # "pending"]

InFlight(p, g, i) ==
    /\ chained[p] # "none"
    /\ g \in DOMAIN status[p]
    /\ i \in DOMAIN status[p][g]
    /\ status[p][g][i] = "inflight"

\* Events run only when no microtask is queued.
EventLoopIdle == \A q \in Plans : ~microtask[q]

\* ele.onload: keep the element, put the script object in the cache, resolve.
OnLoad(p, g, i) ==
    /\ InFlight(p, g, i)
    /\ EventLoopIdle
    /\ cache' = Put(cache, groups[p][g][i].cacheKey, <<p, g, i>>)
    /\ Settle(p, g, i, "resolved")
    /\ UNCHANGED <<body, queue, groups, chained, cur, cbCalls, traces>>

\* ele.onerror: reject.
OnError(p, g, i) ==
    /\ InFlight(p, g, i)
    /\ EventLoopIdle
    /\ Settle(p, g, i, "rejected")
    /\ UNCHANGED <<cache, body, queue, groups, chained, cur, cbCalls, traces>>

\* ---------------------------------------------------------- specification
Init ==
    /\ cache = [k \in CacheKeys |-> Undefined]
    /\ body = {}
    /\ queue = [p \in Plans |-> <<>>]
    /\ groups = [p \in Plans |-> <<>>]
    /\ chained = [p \in Plans |-> "none"]
    /\ cur = [p \in Plans |-> 0]
    /\ microtask = [p \in Plans |-> FALSE]
    /\ status = [p \in Plans |-> <<>>]
    /\ cbCalls = [p \in Plans |-> <<>>]
    /\ traces = [p \in Plans |-> 0]

Next ==
    \E p \in Plans :
        \/ \E script \in Locators, destroyCallback \in Callbacks :
              Script(p, script, destroyCallback)
        \/ \E func \in Funcs : Func(p, func)
        \/ Wait(p)
        \/ \E script \in Locators \cup Funcs : Destroy(p, script)
        \/ Run(p)
        \/ Step(p)
        \/ \E g \in 1..MaxGroups, i \in 1..MaxTasks : OnLoad(p, g, i)
        \/ \E g \in 1..MaxGroups, i \in 1..MaxTasks : OnError(p, g, i)

Spec == Init /\ [][Next]_vars

\* A queued microtask of some chain runs.
RunMicrotask == \E p \in Plans : Step(p)

\* The load or the error event of some appended script element is delivered.
DeliverEvent ==
    \E p \in Plans : \E g \in 1..MaxGroups : \E i \in 1..MaxTasks :
        OnLoad(p, g, i) \/ OnError(p, g, i)

\* The engine goes on running queued microtasks, and the browser goes on
\* delivering the events of the script elements appended: each step of
\* either kind uses up a microtask or an element in flight, so that every
\* microtask runs and every element gets its load or its error event.
Fairness == WF_vars(RunMicrotask) /\ WF_vars(DeliverEvent)

FairSpec == Init /\ [][Next]_vars /\ Fairness

\* ------------------------------------------------------- reading a state
\* The tasks the chains hold: <<plan, group, index>>.
TaskIds ==
    UNION {UNION {{<<p, g, i>> : i \in DOMAIN groups[p][g]} : g \in DOMAIN groups[p]}
           : p \in Plans}

Obj(t) == groups[t[1]][t[2]][t[3]]
St(t) == status[t[1]][t[2]][t[3]]
Calls(t) == cbCalls[t[1]][t[2]][t[3]]

\* The task has been dispatched: its element appended, its function called,
\* its destroy executed.
Dispatched(t) == St(t) # "new"
Settled(t) == St(t) \in {"resolved", "rejected"}

GroupTasks(p, g) == {t \in TaskIds : t[1] = p /\ t[2] = g}

\* Group g of plan p has started.
Started(p, g) == cur[p] >= g \/ \E t \in GroupTasks(p, g) : Dispatched(t)

\* ------------------------------------------------------------------ C1
\* C1: no task of group g+1 of a plan is dispatched (no element appended, no
\* function called, no destroy executed) while a task of group g is
\* unsettled: group g+1 starts only after every task of group g resolved.
C1_GroupOrdering ==
    /\ \A p \in Plans : \A g \in DOMAIN groups[p] :
          (g > 1 /\ Started(p, g)) => \A t \in GroupTasks(p, g - 1) : St(t) = "resolved"
    /\ \A t \in TaskIds : ~Dispatched(t) => t \notin body

\* A second group with a task has started after the load of the first.
C1_Witness ==
    \E p \in Plans :
        /\ Len(groups[p]) = 2
        /\ cur[p] = 2
        /\ \E t \in GroupTasks(p, 1) : Obj(t).type = "url" /\ St(t) = "resolved"
        /\ \E t \in GroupTasks(p, 2) : Dispatched(t)

\* ------------------------------------------------------------------ C2
\* C2: once a task of group g of a plan has failed, no task of a later
\* group of that plan is ever dispatched.
C2_NoGroupAfterFailure ==
    \A p \in Plans : \A g \in DOMAIN groups[p] :
        (\E t \in GroupTasks(p, g) : St(t) = "rejected") =>
            /\ cur[p] <= g
            /\ \A t \in TaskIds : (t[1] = p /\ t[2] > g) => ~Dispatched(t)

\* A load failed, the failure was reported, and the task of the next group
\* is still not dispatched.
C2_Witness ==
    \E p \in Plans :
        /\ chained[p] = "rejected"
        /\ \E t \in GroupTasks(p, 1) : Obj(t).type = "url" /\ St(t) = "rejected"
        /\ \E t \in GroupTasks(p, 2) : ~Dispatched(t)

\* ------------------------------------------------------------------ C3
Failed(p) == cur[p] > 0 /\ \E t \in GroupTasks(p, cur[p]) : St(t) = "rejected"

\* C3 as stated: the failure of a group is reported to the terminal handler
\* only after every sibling task of the group has settled.
C3_ReportAfterFullJoin ==
    \A p \in Plans :
        traces[p] > 0 => \A t \in GroupTasks(p, cur[p]) : Settled(t)

\* C3 as amended: the success of a group is a full join, its failure is
\* not.  A failure is reported only after every task of the group has been
\* dispatched and one of them has failed, and it is reported in the
\* microtasks that follow the first failure, before any further event:
\* sibling loads in flight are not waited for.
C3_ReportAtFirstFailure ==
    \A p \in Plans :
        /\ traces[p] > 0 =>
              /\ Failed(p)
              /\ \A t \in GroupTasks(p, cur[p]) : Dispatched(t)
        /\ (Failed(p) /\ ~microtask[p]) => traces[p] > 0
        /\ chained[p] = "fulfilled" =>
              \A t \in TaskIds : t[1] = p => St(t) = "resolved"

\* The failure is reported while a sibling load is in flight.
C3_Witness ==
    \E p \in Plans :
        /\ traces[p] = 1
        /\ \E t \in GroupTasks(p, cur[p]) : St(t) = "inflight"

\* ------------------------------------------------------------------ C4
UrlTasks(q, script) ==
    {gi \in {g \in DOMAIN q : TRUE} \X (1..MaxTasks) :
        /\ gi[2] \in DOMAIN q[gi[1]]
        /\ q[gi[1]][gi[2]].type = "url"
        /\ q[gi[1]][gi[2]].url = script}

\* C4: two script(L) calls recorded on a plan while L is not cached leave
\* one load task for L in the plan's queue, and the plan attaches L once.
C4_DuplicateRecordedOnce ==
    \A p \in Plans : \A script \in Locators :
        /\ queue[p] # Null => Cardinality(UrlTasks(queue[p], script)) <= 1
        /\ Cardinality({t \in body : t[1] = p /\ Obj(t).url = script}) <= 1

\* ------------------------------------------------------------------ C5
\* C5: destroy(target) as the first call on a fresh plan does not throw, and
\* leaves one destroy task in a first group.
C5_DestroyOpensFirstGroup ==
    \A p \in Plans : \A script \in Locators \cup Funcs :
        queue[p] = <<>> =>
            /\ ~PushDestroyThrows(queue[p])
            /\ PushDestroy(queue[p], script) = <<<<BuildDestroyObj(script)>>>>

\* ------------------------------------------------------------------ C6
StAfter(t) == status'[t[1]][t[2]][t[3]]
CallsAfter(t) == cbCalls'[t[1]][t[2]][t[3]]

\* C6: when a destroy(L) task executes after the load of a script(L,
\* onDestroy) task has settled successfully, then the cache no longer holds
\* L, the element of that load is detached and onDestroy has been called
\* exactly once, at the first such destroy and at every later one.
C6_LoadDestroyRoundTrip ==
    [][\A d \in TaskIds : \A t \in TaskIds :
          ( /\ Obj(d).type = "destroy"
            /\ Obj(t).type = "url"
            /\ Obj(d).cacheKey = Obj(t).cacheKey
            /\ St(t) = "resolved"
            /\ St(d) = "new"
            /\ StAfter(d) # "new" ) =>
              /\ ~Contains(cache', Obj(t).cacheKey)
              /\ t \notin body'
              /\ Obj(t).destroyCallback # NoCallback => CallsAfter(t) = 1]_vars

\* ------------------------------------------------------------------ C7
\* Every task of the group is a destroy of a key the cache does not hold.
AbsentDestroys(p, g) ==
    /\ g \in DOMAIN groups[p]
    /\ Len(groups[p][g]) > 0
    /\ \A t \in GroupTasks(p, g) :
          Obj(t).type = "destroy" /\ ~Contains(cache, Obj(t).cacheKey)

\* C7: a destroy task whose key the cache does not hold is a successful
\* no-op: nothing is detached, no callback is called, the cache is the same,
\* the task resolves, and the plan goes on to its next group with no
\* failure reported.
C7_AbsentDestroyIsNoOp ==
    /\ [](\A k \in CacheKeys : \A throws \in BOOLEAN :
            LET s == [cache |-> cache, body |-> body, calls |-> cbCalls]
            IN  ~Contains(cache, k) =>
                   DestroyTask(s, k, throws) = [s |-> s, promise |-> "resolved"])
    /\ [][\A p \in Plans :
          /\ (cur'[p] = cur[p] + 1 /\ AbsentDestroys(p, cur[p] + 1)) =>
                /\ cache' = cache /\ body' = body /\ cbCalls' = cbCalls
                /\ traces' = traces
                /\ \A t \in GroupTasks(p, cur[p] + 1) : StAfter(t) = "resolved"
                /\ microtask'[p]
          /\ ( /\ (cur'[p] # cur[p] \/ chained'[p] # chained[p])
               /\ cur[p] > 0 /\ AbsentDestroys(p, cur[p])
               /\ \A t \in GroupTasks(p, cur[p]) : St(t) = "resolved" ) =>
                /\ cur'[p] = cur[p] + 1 \/ chained'[p] = "fulfilled"
                /\ traces'[p] = 0]_vars

\* A destroy of a script never loaded has resolved, nothing was appended or
\* cached, and the plan has gone on to its next group.
C7_Witness ==
    \E d \in TaskIds :
        /\ Obj(d).type = "destroy"
        /\ St(d) = "resolved"
        /\ cur[d[1]] > d[2]
        /\ body = {}
        /\ ~Contains(cache, Obj(d).cacheKey)
        /\ \A k \in CacheKeys : cache[k] = Undefined
        /\ \A t \in TaskIds : Obj(t).type = "url" => ~Dispatched(t)

\* ------------------------------------------------------------------ C8
\* C8: a plan is one-shot.  run() hands the chain the queue as it stands;
\* from then on every recording call and every run() on the plan throws and
\* changes nothing, the tasks of the chain stay the same, and none of them
\* is dispatched a second time.
C8_OneShotPlan ==
    [][\A p \in Plans :
          /\ (chained'[p] # chained[p] /\ ~RunThrows(queue[p]) /\ Run(p)) =>
                groups'[p] = queue[p] /\ chained'[p] # "none"
          /\ chained[p] # "none" =>
                /\ PushThrows(queue[p])
                /\ PushDestroyThrows(queue[p])
                /\ RunThrows(queue[p])
                /\ queue'[p] = queue[p]
                /\ groups'[p] = groups[p]
                /\ chained'[p] # "none"
                /\ \A g \in DOMAIN status[p] : \A i \in DOMAIN status[p][g] :
                      status[p][g][i] # "new" => status'[p][g][i] # "new"]_vars

\* A plan that has run has a task dispatched, and its calls throw.
C8_Witness ==
    \E p \in Plans :
        /\ chained[p] # "none"
        /\ PushThrows(queue[p]) /\ PushDestroyThrows(queue[p]) /\ RunThrows(queue[p])
        /\ \E t \in TaskIds : t[1] = p /\ Dispatched(t)

\* ------------------------------------------------------------------ C9
\* C9: a plan with a failed task gets exactly one failure report, however
\* many tasks of the group fail.  run() returns before any task is
\* dispatched, so no failure of a task reaches its caller.
C9_OneFailureReport ==
    [][\A p \in Plans :
          /\ traces'[p] <= 1
          /\ (cur'[p] > 0
              /\ ~microtask'[p]
              /\ \E i \in DOMAIN status'[p][cur'[p]] :
                    status'[p][cur'[p]][i] = "rejected") => traces'[p] = 1
          /\ (chained'[p] # chained[p] /\ ~RunThrows(queue[p]) /\ Run(p)) =>
                /\ traces' = traces
                /\ \A g \in DOMAIN status'[p] : \A i \in DOMAIN status'[p][g] :
                      status'[p][g][i] = "new"]_vars

\* Two tasks of the group have failed and one report was made.
C9_Witness ==
    \E p \in Plans :
        /\ traces[p] = 1
        /\ Cardinality({t \in GroupTasks(p, cur[p]) : St(t) = "rejected"}) = 2

Final(p) == chained[p] \in {"fulfilled", "rejected"}

\* C13: when every queued microtask runs and every script element appended
\* gets its load or its error event, the chain of every plan that run() has
\* started ends: every group completed, or a failure reported.
C13_PlanTerminates ==
    \A p \in Plans : (chained[p] = "pending") ~> Final(p)

\* A plan of two groups has ended after the load of its first group and the
\* load of its second.
C13_Witness ==
    \E p \in Plans :
        /\ chained[p] = "fulfilled"
        /\ Len(groups[p]) = 2
        /\ \A g \in 1..2 : \E t \in GroupTasks(p, g) :
              Obj(t).type = "url" /\ St(t) = "resolved"

\* ----------------------------------------------------------------- C14
\* C14: a group is dispatched as a whole.  In every state in which a group
\* of a plan has started, every task of the group has been dispatched, also
\* when a task before it in the group threw: no completion, and no reaction
\* of the chain, sees a group dispatched in part.
C14_FanOutBeforeJoin ==
    \A p \in Plans : \A g \in DOMAIN groups[p] :
        Started(p, g) =>
            /\ Len(status[p][g]) = Len(groups[p][g])
            /\ \A t \in GroupTasks(p, g) : Dispatched(t)

\* The first task of a group threw, and the load after it in the group is
\* in flight.
C14_Witness ==
    \E p \in Plans : \E g \in DOMAIN groups[p] :
        /\ Len(groups[p][g]) = 2
        /\ groups[p][g][1].type = "function"
        /\ groups[p][g][2].type = "url"
        /\ St(<<p, g, 1>>) = "rejected"
        /\ St(<<p, g, 2>>) = "inflight"
        /\ <<p, g, 2>> \in body

\* ----------------------------------------------------------------- C15
\* C15: the cache contains a url L only if a load task of L has completed
\* and no destroy has removed its entry since: what the cache gives for L is
\* then the script object of a load task of L that resolved.
C15_CacheOnlyLoaded ==
    \A script \in Locators :
        Contains(cache, script) =>
            \E t \in TaskIds :
                /\ Obj(t).type = "url"
                /\ Obj(t).cacheKey = script
                /\ St(t) = "resolved"
                /\ Get(cache, script) = t

\* ----------------------------------------------------------------- C16
\* C16: the failure of a group rolls nothing back and cancels nothing.  The
\* step that reports a failure changes no cache entry, no element and no
\* task; an error event rejects its own task and leaves the cache, the
\* elements and every other task as they are; a cache entry goes, and an
\* element is detached, only by a destroy task that executes; and a load in
\* flight in a group that has failed can still complete, and when it does it
\* puts its entry and its element stays.
C16_FailureKeepsEffects ==
    /\ [](\A p \in Plans :
            (Failed(p) /\ EventLoopIdle) =>
                \A t \in GroupTasks(p, cur[p]) :
                    St(t) = "inflight" => ENABLED OnLoad(t[1], t[2], t[3]))
    /\ [][(status' # status \/ cache' # cache \/ body' # body \/ traces' # traces) =>
       /\ \A p \in Plans :
            traces'[p] # traces[p] =>
                cache' = cache /\ body' = body /\ status' = status /\ cbCalls' = cbCalls
       /\ \A t \in TaskIds :
            /\ (St(t) = "inflight" /\ StAfter(t) = "rejected") =>
                   /\ cache' = cache /\ body' = body
                   /\ \A u \in TaskIds \ {t} : StAfter(u) = St(u)
            /\ (Failed(t[1]) /\ St(t) = "inflight" /\ StAfter(t) = "resolved") =>
                   (Get(cache', Obj(t).cacheKey) = t /\ t \in body')
            /\ (t \in body /\ t \notin body') =>
                   \E d \in TaskIds :
                       /\ Obj(d).type = "destroy" /\ Obj(d).cacheKey = Obj(t).cacheKey
                       /\ St(d) = "new" /\ StAfter(d) # "new"
       /\ \A k \in CacheKeys :
            (cache[k] # Undefined /\ cache'[k] = Undefined) =>
                \E d \in TaskIds :
                    /\ Obj(d).type = "destroy" /\ Obj(d).cacheKey = k
                    /\ St(d) = "new" /\ StAfter(d) = "resolved"]_vars

\* The func of a group threw and the failure was reported while the load of
\* the same group was in flight; the load has completed since, its element
\* is attached and the cache holds its entry.
C16_Witness ==
    \E p \in Plans : \E t \in GroupTasks(p, cur[p]) : \E u \in GroupTasks(p, cur[p]) :
        /\ Obj(t).type = "function" /\ St(t) = "rejected"
        /\ traces[p] = 1
        /\ Obj(u).type = "url" /\ St(u) = "resolved"
        /\ u \in body
        /\ Get(cache, Obj(u).cacheKey) = u

\* ----------------------------------------------------------------- C17
\* C17: the exception of a function called by a func task, or of a
\* destroyCallback called by a destroy task, does what a failed load does.
\* The task is rejected inside the reaction of the chain that dispatched
\* its group, never inside run(): the step changes no queue and reports
\* nothing yet, and the reaction to the failure is queued.  From then on, as
\* for a task of any type that is rejected, the plan stays at that group,
\* no task of a later group is dispatched, the chain never completes, and
\* the failure is reported once, by the microtask that follows.
C17_CallbackThrowFailsGroup ==
    /\ [][status' # status => \A t \in TaskIds :
            ( /\ Obj(t).type \in {"function", "destroy"}
              /\ St(t) = "new"
              /\ StAfter(t) = "rejected" ) =>
                 /\ chained[t[1]] = "pending" /\ chained' = chained
                 /\ queue' = queue
                 /\ traces' = traces
                 /\ cur'[t[1]] = t[2]
                 /\ microtask'[t[1]]]_vars
    /\ [](\A t \in TaskIds :
            St(t) = "rejected" =>
                 /\ cur[t[1]] = t[2]
                 /\ \A u \in TaskIds : (u[1] = t[1] /\ u[2] > t[2]) => ~Dispatched(u)
                 /\ chained[t[1]] # "fulfilled"
                 /\ traces[t[1]] = (IF microtask[t[1]] THEN 0 ELSE 1)
                 /\ chained[t[1]] = "rejected" <=> traces[t[1]] = 1)

\* The destroyCallback of a loaded script was called by a destroy task and
\* threw: the task is rejected, and the failure was reported once.
C17_Witness ==
    \E d \in TaskIds : \E t \in TaskIds :
        /\ Obj(d).type = "destroy" /\ St(d) = "rejected"
        /\ Obj(t).type = "url" /\ Obj(t).cacheKey = Obj(d).cacheKey
        /\ Calls(t) = 1
        /\ traces[d[1]] = 1 /\ chained[d[1]] = "rejected"

\* ----------------------------------------------------------------- C18
\* C18: only a load waits.  A task in flight is a url task; a func or a
\* destroy task is settled by the step that dispatches it, and that step
\* touches the tasks of no other plan.  The lookup, the detach, the callback
\* and the removal of a destroy task are one step: when the task resolves,
\* the entry the cache held for its key is gone, the element of that entry
\* is detached and its destroyCallback, when it has one, has been called
\* once more; when the task is rejected the entry is the one the cache held
\* and its element is detached.
C18_OnlyLoadsSuspend ==
    [][status' # status => \A t \in TaskIds :
          /\ StAfter(t) = "inflight" => Obj(t).type = "url"
          /\ ( /\ Obj(t).type \in {"function", "destroy"}
               /\ St(t) = "new"
               /\ StAfter(t) # "new" ) =>
                  /\ StAfter(t) \in {"resolved", "rejected"}
                  /\ \A u \in TaskIds : u[1] # t[1] => StAfter(u) = St(u)
          /\ ( /\ Obj(t).type = "destroy"
               /\ St(t) = "new"
               /\ StAfter(t) # "new"
               /\ cache[Obj(t).cacheKey] # Undefined ) =>
                  LET o == cache[Obj(t).cacheKey]
                  IN  /\ o \notin body'
                      /\ IF StAfter(t) = "resolved"
                         THEN /\ cache'[Obj(t).cacheKey] = Undefined
                              /\ CallsAfter(o) = Calls(o) +
                                    (IF Obj(o).destroyCallback # NoCallback THEN 1 ELSE 0)
                         ELSE cache'[Obj(t).cacheKey] = o]_vars

\* A destroy task has resolved: the element of the load is detached, its
\* destroyCallback was called once, and the cache no longer holds the url.
C18_Witness ==
    \E d \in TaskIds : \E t \in TaskIds :
        /\ Obj(d).type = "destroy" /\ St(d) = "resolved"
        /\ Obj(t).type = "url" /\ Obj(t).cacheKey = Obj(d).cacheKey
        /\ St(t) = "resolved"
        /\ t \notin body
        /\ Calls(t) = 1
        /\ cache[Obj(t).cacheKey] = Undefined

\* ----------------------------------------------------------------- C19
\* C19: no element is orphaned.  Every script element that a completed load
\* attached and that is still a child of document.body is the element of
\* the entry the cache holds for its url.
C19_NoOrphanedElement ==
    \A t \in TaskIds :
        (Obj(t).type = "url" /\ St(t) = "resolved" /\ t \in body) =>
            Get(cache, Obj(t).cacheKey) = t

\* ----------------------------------------------------------------- C20
\* C20: every entry of the cache holds an element that is attached: once a
\* destroy task has detached the element of an entry, the cache no longer
\* holds the entry, also when the destroyCallback threw.
C20_EntryElementAttached ==
    \A k \in CacheKeys : cache[k] # Undefined => cache[k] \in body

====
